---- MODULE Spec2Model ----
(***************************************************************************)
(* Model of sentry.interfaces.http: the Http interface's to_python         *)
(* (normalisation of a raw request payload into a record) and to_json      *)
(* (the stored form of a record).                                          *)
(*                                                                         *)
(* A Python value is a pair <<tag, content>>; the content of a text is a    *)
(* sequence of one-character strings, so that upper(), title(), the URL    *)
(* split and the query-string parse are computed character by character.   *)
(* The content of a dict is the sequence of its <<key, value>> entries in  *)
(* iteration order.                                                        *)
(***************************************************************************)
EXTENDS Integers, Sequences, FiniteSets, TLC

\* ------------------------------------------------------------------ values

None == <<"none", <<>>>>
\* a key that the payload does not carry
Absent == <<"absent", <<>>>>
S(s) == <<"str", s>>
I(n) == <<"int", n>>
L(xs) == <<"list", xs>>
T(xs) == <<"tuple", xs>>
D(ps) == <<"dict", ps>>

\* characters outside ASCII, and the line feed
ELLIPSIS == "U+2026"
SURROGATE == "U+D800"
LF == "LF"

IsStr(x) == x[1] = "str"
IsDict(x) == x[1] = "dict"
IsList(x) == x[1] = "list"
IsSeqLike(x) == x[1] \in {"list", "tuple"}

\* Python truth value: None, "", [], (), {} and 0 are false
Truthy(x) ==
    CASE x[1] \in {"none", "absent"} -> FALSE
      [] x[1] = "int" -> x[2] # 0
      [] OTHER -> Len(x[2]) > 0

\* data.get(key): None when the key is absent
Get(data, key) == IF data[key] = Absent THEN None ELSE data[key]
\* data.get(key, default)
GetDefault(data, key, default) == IF data[key] = Absent THEN default ELSE data[key]
\* key in data
HasKey(data, key) == data[key] # Absent
\* a or b
Or(a, b) == IF Truthy(a) THEN a ELSE b

\* --------------------------------------------------------- str primitives

LowerLetters ==
    <<"a", "b", "c", "d", "e", "f", "g", "h", "i", "j", "k", "l", "m",
      "n", "o", "p", "q", "r", "s", "t", "u", "v", "w", "x", "y", "z">>
UpperLetters ==
    <<"A", "B", "C", "D", "E", "F", "G", "H", "I", "J", "K", "L", "M",
      "N", "O", "P", "Q", "R", "S", "T", "U", "V", "W", "X", "Y", "Z">>
Digits == {"0", "1", "2", "3", "4", "5", "6", "7", "8", "9"}
Whitespace == {" ", LF}

Range(f) == {f[i] : i \in DOMAIN f}
IsLower(c) == c \in Range(LowerLetters)
IsUpper(c) == c \in Range(UpperLetters)
IsLetter(c) == IsLower(c) \/ IsUpper(c)
UpperChar(c) ==
    IF IsLower(c) THEN UpperLetters[CHOOSE i \in DOMAIN LowerLetters : LowerLetters[i] = c] ELSE c
LowerChar(c) ==
    IF IsUpper(c) THEN LowerLetters[CHOOSE i \in DOMAIN UpperLetters : UpperLetters[i] = c] ELSE c

\* str.upper(), str.lower()
upper(s) == [i \in DOMAIN s |-> UpperChar(s[i])]
lower(s) == [i \in DOMAIN s |-> LowerChar(s[i])]
\* str.title(): a letter that follows a letter is lower-cased, any other letter upper-cased
title(s) ==
    [i \in DOMAIN s |->
        IF i > 1 /\ IsLetter(s[i - 1]) THEN LowerChar(s[i]) ELSE UpperChar(s[i])]

\* str.endswith(c) for a one-character suffix
EndsWith(s, c) == Len(s) > 0 /\ s[Len(s)] = c
\* s[:-1]
DropLast(s) == SubSeq(s, 1, Len(s) - 1)
\* s[n:]
From(s, n) == SubSeq(s, n, Len(s))

\* s.find(c): the first index of c in s (1-based), 0 when c does not occur
Find(s, c) ==
    IF \E i \in DOMAIN s : s[i] = c
    THEN CHOOSE i \in DOMAIN s : s[i] = c /\ \A j \in 1..(i - 1) : s[j] # c
    ELSE 0

\* s.split(c, 1): <<before, after>> the first c, or <<s>> when c does not occur
Split1(s, c) ==
    LET i == Find(s, c)
    IN  IF i = 0 THEN <<s>> ELSE <<SubSeq(s, 1, i - 1), From(s, i + 1)>>

\* s.split(c)
RECURSIVE Split(_, _)
Split(s, c) ==
    LET i == Find(s, c)
    IN  IF i = 0 THEN <<s>> ELSE <<SubSeq(s, 1, i - 1)>> \o Split(From(s, i + 1), c)

\* str.strip(), str.rstrip()
RECURSIVE rstrip(_)
rstrip(s) == IF Len(s) > 0 /\ s[Len(s)] \in Whitespace THEN rstrip(DropLast(s)) ELSE s
RECURSIVE lstrip(_)
lstrip(s) == IF Len(s) > 0 /\ s[1] \in Whitespace THEN lstrip(Tail(s)) ELSE s
strip(s) == rstrip(lstrip(s))

\* sep.join(parts) for a sequence of texts
RECURSIVE Join(_, _)
Join(sep, parts) ==
    IF parts = <<>> THEN <<>>
    ELSE IF Len(parts) = 1 THEN parts[1]
    ELSE parts[1] \o sep \o Join(sep, Tail(parts))

\* to_unicode(value): a text is returned as it is
to_unicode(x) == x

DigitChars == <<"0", "1", "2", "3", "4", "5", "6", "7", "8", "9">>
\* six.text_type(n) and json.dumps(n) of an integer 0..9
IntText(n) == <<DigitChars[n + 1]>>

\* ------------------------------------------------------- urllib.parse

\* unquote(s.replace('+', ' ')) over texts without %-escapes
Unquote(s) == [i \in DOMAIN s |-> IF s[i] = "+" THEN " " ELSE s[i]]

\* one field of a query string: <<name, value>>, a field without '=' gets a blank value
QslField(f) ==
    LET nv == Split1(f, "=")
    IN  <<Unquote(nv[1]), IF Len(nv) = 2 THEN Unquote(nv[2]) ELSE <<>>>>

\* parse_qsl(qs, keep_blank_values=True): empty fields are skipped
RECURSIVE QslFields(_)
QslFields(fs) ==
    IF fs = <<>> THEN <<>>
    ELSE (IF Head(fs) = <<>> THEN <<>> ELSE <<QslField(Head(fs))>>) \o QslFields(Tail(fs))
parse_qsl(qs) == QslFields(Split(qs, "&"))

SchemeChars == Range(LowerLetters) \cup Range(UpperLetters) \cup Digits \cup {"+", "-", "."}

\* _splitnetloc(url, 2): the netloc ends at the first of '/', '?', '#'
NetlocEnd(url) ==
    LET stops == {i \in 3..Len(url) : url[i] \in {"/", "?", "#"}}
    IN  IF stops = {} THEN Len(url) + 1 ELSE CHOOSE i \in stops : \A j \in stops : i <= j

\* urlsplit(url): <<scheme, netloc, path, query, fragment>>
urlsplit(url) ==
    LET i == Find(url, ":")
        rest0 == From(url, i + 1)
        hasScheme ==
            /\ i > 1
            /\ \A j \in 1..(i - 1) : url[j] \in SchemeChars
            /\ (SubSeq(url, 1, i - 1) = <<"h", "t", "t", "p">>
                    \/ rest0 = <<>> \/ \E j \in DOMAIN rest0 : rest0[j] \notin Digits)
        scheme == IF hasScheme THEN lower(SubSeq(url, 1, i - 1)) ELSE <<>>
        u1 == IF hasScheme THEN rest0 ELSE url
        hasNetloc == Len(u1) >= 2 /\ u1[1] = "/" /\ u1[2] = "/"
        netloc == IF hasNetloc THEN SubSeq(u1, 3, NetlocEnd(u1) - 1) ELSE <<>>
        u2 == IF hasNetloc THEN From(u1, NetlocEnd(u1)) ELSE u1
        fs == Split1(u2, "#")
        fragment == IF Len(fs) = 2 THEN fs[2] ELSE <<>>
        qs == Split1(fs[1], "?")
        query == IF Len(qs) = 2 THEN qs[2] ELSE <<>>
    IN  <<S(scheme), S(netloc), S(qs[1]), S(query), S(fragment)>>

\* uses_netloc, the schemes that the modelled alphabet can spell
UsesNetloc == {<<"h", "t", "t", "p">>, <<"h", "t", "t", "p", "s">>, <<"f", "t", "p">>}

\* urlunsplit((scheme, netloc, path, '', '')): the path is returned as it is,
\* None included, when neither a netloc nor a scheme is put in front of it
urlunsplit(scheme, netloc, path) ==
    LET p0 == IF Truthy(path) THEN path[2] ELSE <<>>
        withNetloc ==
            \/ Truthy(netloc)
            \/ (Truthy(scheme) /\ scheme[2] \in UsesNetloc
                    /\ ~(Len(p0) >= 2 /\ p0[1] = "/" /\ p0[2] = "/"))
        p1 == IF withNetloc
              THEN <<"/", "/">> \o (IF Truthy(netloc) THEN netloc[2] ELSE <<>>)
                     \o (IF p0 # <<>> /\ p0[1] # "/" THEN <<"/">> ELSE <<>>) \o p0
              ELSE p0
    IN  IF Truthy(scheme) THEN S(scheme[2] \o <<":">> \o p1)
        ELSE IF withNetloc THEN S(p1)
        ELSE path

\* ------------------------------------------------- sentry.utils (callees)

\* settings.SENTRY_MAX_DICTIONARY_ITEMS, the default bound of trim_pairs and trim_dict
MaxDictionaryItems == 4
\* settings.SENTRY_MAX_VARIABLE_SIZE, the default bound of a trimmed value
MaxVariableSize == 12
\* settings.SENTRY_MAX_HTTP_BODY_SIZE, as configured
MaxHttpBodySize == 16

Min(a, b) == IF a < b THEN a ELSE b

\* the size trim() counts: the characters of a text, summed over a structure
RECURSIVE Size(_)
Size(x) ==
    CASE x[1] = "str" -> Len(x[2])
      [] x[1] \in {"list", "tuple"} ->
            IF x[2] = <<>> THEN 0 ELSE Size(Head(x[2])) + Size([x EXCEPT ![2] = Tail(x[2])])
      [] x[1] = "dict" ->
            IF x[2] = <<>> THEN 0
            ELSE Size(Head(x[2])[1]) + Size(Head(x[2])[2]) + Size([x EXCEPT ![2] = Tail(x[2])])
      [] OTHER -> 0

\* trim(value, max_size): a text keeps a prefix, a structure keeps its leading
\* elements, each trimmed to what is left of the size
RECURSIVE trim(_, _)
trim(x, n) ==
    CASE x[1] = "str" -> S(SubSeq(x[2], 1, Min(Len(x[2]), IF n > 0 THEN n ELSE 0)))
      [] x[1] \in {"list", "tuple"} ->
            IF x[2] = <<>> \/ n <= 0 THEN [x EXCEPT ![2] = <<>>]
            ELSE LET h == trim(Head(x[2]), n)
                 IN  [x EXCEPT ![2] = <<h>> \o trim([x EXCEPT ![2] = Tail(x[2])], n - Size(h))[2]]
      [] x[1] = "dict" ->
            IF x[2] = <<>> \/ n <= 0 THEN D(<<>>)
            ELSE LET k == Head(x[2])[1]
                     h == trim(Head(x[2])[2], n - Size(k))
                 IN  D(<<<<k, h>>>> \o trim(D(Tail(x[2])), n - Size(k) - Size(h))[2])
      [] OTHER -> x

\* trim_pairs(pairs): at most MaxDictionaryItems pairs, in order, as (key, trimmed value)
trim_pairs(pairs) ==
    L([i \in 1..Min(Len(pairs[2]), MaxDictionaryItems) |->
        T(<<pairs[2][i][2][1], trim(pairs[2][i][2][2], MaxVariableSize)>>)])

\* trim_dict(mapping): at most MaxDictionaryItems entries, each value trimmed
trim_dict(d) ==
    D([i \in 1..Min(Len(d[2]), MaxDictionaryItems) |->
        <<d[2][i][1], trim(d[2][i][2], MaxVariableSize)>>])

\* get_path(data, "headers", filter=True): the null entries of a list are left out
get_path_filter(data, key) ==
    LET value == Get(data, key)
        NotNone(e) == e # None
    IN  IF IsSeqLike(value) THEN [value EXCEPT ![2] = SelectSeq(value[2], NotNone)] ELSE value

\* validate_and_default_interface(data, 'request')[0]: the schema validator's verdict
validate_and_default_interface(data) == data.is_valid

ValidAddresses == {<<"1", "9", "2", ".", "1", "6", "8", ".", "0", ".", "1">>}
\* validate_ip(value, required): TRUE when it raises ValueError
validate_ip_raises(value, required) ==
    /\ required \/ Truthy(value)
    /\ ~(IsStr(value) /\ value[2] \in ValidAddresses)

JSON_TYPE == <<"a", "p", "p", "l", "i", "c", "a", "t", "i", "o", "n", "/", "j", "s", "o", "n">>
FORM_TYPE ==
    <<"a", "p", "p", "l", "i", "c", "a", "t", "i", "o", "n", "/", "x", "-", "w", "w", "w", "-",
      "f", "o", "r", "m", "-", "u", "r", "l", "e", "n", "c", "o", "d", "e", "d">>

\* json.loads(text) succeeds: the JSON texts {}, a digit, and a quoted text
IsJson(s) ==
    \/ s = <<"{", "}">>
    \/ Len(s) = 1 /\ s[1] \in Digits
    \/ Len(s) >= 2 /\ s[1] = "\"" /\ s[Len(s)] = "\""
        /\ \A i \in 2..(Len(s) - 1) : s[i] # "\""
JsonValue(s) ==
    IF s = <<"{", "}">> THEN D(<<>>)
    ELSE IF Len(s) = 1 THEN I(CHOOSE n \in 0..9 : DigitChars[n + 1] = s[1])
    ELSE S(SubSeq(s, 2, Len(s) - 1))

\* parse_qs(text, strict_parsing=True) succeeds: every field holds a '='
IsForm(s) ==
    LET fs == Split(s, "&")
    IN  s # <<>> /\ \A i \in DOMAIN fs : Find(fs[i], "=") # 0
FormValue(s) ==
    LET ps == parse_qsl(s)
    IN  D([i \in DOMAIN ps |-> <<S(ps[i][1]), L(<<S(ps[i][2])>>)>>])

\* heuristic_decode(body, content_type): <<decoded body, inferred content type>>:
\* JSON, then form-encoded, else the body as it is with the given content type
heuristic_decode(body, content_type) ==
    IF IsStr(body) /\ IsJson(body[2]) THEN <<JsonValue(body[2]), S(JSON_TYPE)>>
    ELSE IF IsStr(body) /\ IsForm(body[2]) THEN <<FormValue(body[2]), S(FORM_TYPE)>>
    ELSE <<body, content_type>>

IsEmptyValue(x) == x[1] = "none" \/ (x[1] \in {"str", "list", "tuple", "dict"} /\ Len(x[2]) = 0)
\* prune_empty_keys(mapping): the keys with an empty value are left out
prune_empty_keys(m) == [k \in DOMAIN m |-> IF IsEmptyValue(m[k]) THEN Absent ELSE m[k]]

\* ------------------------------------------------ sentry.interfaces.http

MethodChars == Range(UpperLetters) \cup {"-", "_"}
\* http_method_re.match(method): ^[A-Z\-_]{3,32}$, where $ also matches before a
\* line feed that ends the text
http_method_re(method) ==
    LET body == IF EndsWith(method, LF) THEN DropLast(method) ELSE method
    IN  /\ Len(body) >= 3
        /\ Len(body) <= 32
        /\ \A i \in DOMAIN body : body[i] \in MethodChars

\* the (k, v) items format_headers iterates over
HeaderItems(value) ==
    IF IsDict(value) THEN value[2] ELSE [i \in DOMAIN value[2] |-> <<value[2][i][2][1], value[2][i][2][2]>>]

\* a list-valued header is joined with ', '
JoinedHeaderValue(v) ==
    IF IsList(v) THEN S(Join(<<",", " ">>, [i \in DOMAIN v[2] |-> v[2][i][2]])) ELSE v

\* six.text_type(v) of a header value that is not a text
HeaderText(v) == IF IsStr(v) THEN v ELSE S(IntText(v[2]))

IsCookieItem(item) == lower(item[1][2]) = <<"c", "o", "o", "k", "i", "e">>

\* format_headers with the Cookie header left among the result
format_headers_keeping_cookie(value) ==
    IF ~Truthy(value) THEN T(<<>>)
    ELSE LET items == HeaderItems(value)
             cookies == SelectSeq(items, IsCookieItem)
             result ==
                 [i \in DOMAIN items |->
                    T(<<S(title(items[i][1][2])), HeaderText(JoinedHeaderValue(items[i][2]))>>)]
             cookie_header ==
                 IF cookies = <<>> THEN None ELSE JoinedHeaderValue(cookies[Len(cookies)][2])
         IN  T(<<L(result), cookie_header>>)

\* format_headers(value): () for a false value, else (result, cookie_header)
format_headers(value) ==
    IF ~Truthy(value) THEN T(<<>>)
    ELSE LET items == HeaderItems(value)
             NotCookie(item) == ~IsCookieItem(item)
             kept == SelectSeq(items, NotCookie)
             cookies == SelectSeq(items, IsCookieItem)
             result ==
                 [i \in DOMAIN kept |->
                    T(<<S(title(kept[i][1][2])), HeaderText(JoinedHeaderValue(kept[i][2]))>>)]
             cookie_header ==
                 IF cookies = <<>> THEN None ELSE JoinedHeaderValue(cookies[Len(cookies)][2])
         IN  T(<<L(result), cookie_header>>)

\* fix_broken_encoding(value): a character UTF-8 cannot encode is replaced
fix_broken_encoding(value) ==
    IF IsStr(value)
    THEN S([i \in DOMAIN value[2] |-> IF value[2][i] = SURROGATE THEN "?" ELSE value[2][i]])
    ELSE value

\* format_cookies(value): () for a false value, else a list of [key, value]
format_cookies(value) ==
    IF ~Truthy(value) THEN T(<<>>)
    ELSE LET parsed == parse_qsl(value[2])
             items ==
                 IF IsStr(value) THEN [i \in DOMAIN parsed |-> <<S(parsed[i][1]), S(parsed[i][2])>>]
                 ELSE IF IsDict(value) THEN value[2]
                 ELSE [i \in DOMAIN value[2] |-> <<value[2][i][2][1], value[2][i][2][2]>>]
         IN  L([i \in DOMAIN items |->
                  L(<<fix_broken_encoding(S(strip(items[i][1][2]))),
                      fix_broken_encoding(items[i][2])>>)])

\* jsonify(value): a text as it is, anything else through json.dumps
jsonify(value) ==
    IF IsStr(value) THEN to_unicode(value)
    ELSE IF value[1] = "int" THEN S(IntText(value[2]))
    ELSE S(<<"n", "u", "l", "l">>)

Fields ==
    {"method", "url", "query_string", "fragment", "cookies", "headers", "data", "env",
     "inferred_content_type"}
\* the outcome of a call that raised carries no record
NoRecord == [k \in Fields |-> Absent]

\* a trailing ellipsis character becomes three periods
RepairEllipsis(s) == IF EndsWith(s, ELLIPSIS) THEN DropLast(s) \o <<".", ".", ".">> ELSE s

\* the URL's five components, all None without a url
SplitUrl(data) ==
    IF Truthy(Get(data, "url"))
    THEN urlsplit(RepairEllipsis(to_unicode(Get(data, "url"))[2]))
    ELSE <<None, None, None, None, None>>

IsPairEntry(tup) == IsSeqLike(tup) /\ Len(tup[2]) = 2

\* the pairs of a true query_string value, by its type
CoerceQueryString(query_string) ==
    IF IsStr(query_string)
    THEN LET q1 == IF query_string[2][1] = "?" THEN Tail(query_string[2]) ELSE query_string[2]
             ps == parse_qsl(RepairEllipsis(q1))
         IN  L([i \in DOMAIN ps |-> T(<<to_unicode(S(ps[i][1])), jsonify(S(ps[i][2]))>>)])
    ELSE IF IsDict(query_string)
    THEN L([i \in DOMAIN query_string[2] |->
                T(<<to_unicode(query_string[2][i][1]), jsonify(query_string[2][i][2])>>)])
    ELSE IF IsList(query_string)
    THEN LET pairs == SelectSeq(query_string[2], IsPairEntry)
         IN  L([i \in DOMAIN pairs |-> T(pairs[i][2])])
    ELSE L(<<>>)

\* the url's query first: query_bit or data.get('query_string')
ResolveQueryString_url_first(data, query_bit) == Or(query_bit, Get(data, "query_string"))

\* data.get('query_string') or query_bit
ResolveQueryString(data, query_bit) == Or(Get(data, "query_string"), query_bit)

\* kwargs['query_string']
QueryStringField(query_string) ==
    IF Truthy(query_string) THEN trim(CoerceQueryString(query_string), 4096) ELSE L(<<>>)

\* data.get('fragment') or fragment_bit
ResolveFragment(data, fragment_bit) == Or(Get(data, "fragment"), fragment_bit)

\* kwargs['fragment']
FragmentField(fragment) == trim(fragment, 1024)

\* the cookies to format: the Cookie header stands in for false explicit cookies
ResolveCookies(cookies, cookie_header) ==
    IF ~Truthy(cookies) /\ Truthy(cookie_header) THEN cookie_header ELSE cookies

\* next((v for k, v in headers if k == 'Content-Type'), None), without its parameters
ContentType(headers) ==
    LET IsContentType(h) == h[2][1] = S(<<"C", "o", "n", "t", "e", "n", "t", "-", "T", "y", "p", "e">>)
        found == SelectSeq(headers[2], IsContentType)
    IN  IF found = <<>> THEN None ELSE S(rstrip(Split1(found[1][2][2][2], ";")[1]))

REMOTE_ADDR == S(<<"R", "E", "M", "O", "T", "E", "_", "A", "D", "D", "R">>)

\* env with the ValueError of validate_ip swallowed and nothing deleted
ScrubEnv_never_deletes(env) == env

\* env after the REMOTE_ADDR check: the entry is deleted when validate_ip raises
ScrubEnv(env) ==
    LET IsRemote(e) == e[1] = REMOTE_ADDR
        Keep(e) == ~(IsRemote(e) /\ validate_ip_raises(e[2], FALSE))
    IN  D(SelectSeq(env[2], Keep))

\* Http.to_python(data): the outcome (a record or the exception raised), whether
\* heuristic_decode was called, and the payload object as the call leaves it
to_python(data) ==
    LET is_valid == validate_and_default_interface(data)
        raw_method == Get(data, "method")
        method == upper(raw_method[2])
        badMethod ==
            /\ Truthy(raw_method)
            /\ method \notin {<<"G", "E", "T">>, <<"P", "O", "S", "T">>}
            /\ ~http_method_re(method)
        parts == SplitUrl(data)
        query_string == ResolveQueryString(data, parts[4])
        fragment == ResolveFragment(data, parts[5])
        hasHeaders == Truthy(Get(data, "headers"))
        formatted == format_headers(get_path_filter(data, "headers"))
        unpackFails == hasHeaders /\ Len(formatted[2]) # 2
        headers == IF hasHeaders THEN formatted[2][1] ELSE T(<<>>)
        cookies ==
            IF hasHeaders THEN ResolveCookies(Get(data, "cookies"), formatted[2][2])
            ELSE Get(data, "cookies")
        body0 == Get(data, "data")
        content_type == ContentType(headers)
        decodes == ~HasKey(data, "inferred_content_type") /\ ~IsDict(body0)
        decoded == heuristic_decode(body0, content_type)
        body1 == IF decodes THEN decoded[1] ELSE body0
        inferred_content_type ==
            IF decodes THEN decoded[2] ELSE GetDefault(data, "inferred_content_type", content_type)
        body == IF Truthy(body1) THEN trim(body1, MaxHttpBodySize) ELSE body1
        env == ScrubEnv(GetDefault(data, "env", D(<<>>)))
        Raised(e, msg) ==
            [kind |-> e, error |-> msg, rec |-> NoRecord, decoded |-> FALSE, data |-> data]
    IN  IF ~is_valid THEN Raised("InterfaceValidationError", "Invalid interface data")
        ELSE IF badMethod THEN Raised("InterfaceValidationError", "Invalid value for 'method'")
        ELSE IF unpackFails THEN Raised("ValueError", "not enough values to unpack")
        ELSE [kind |-> "record",
              error |-> "",
              rec |->
                [method |-> IF Truthy(raw_method) THEN S(method) ELSE None,
                 query_string |-> QueryStringField(query_string),
                 inferred_content_type |-> inferred_content_type,
                 cookies |-> trim_pairs(format_cookies(cookies)),
                 env |-> trim_dict(env),
                 headers |-> trim_pairs(headers),
                 data |-> fix_broken_encoding(body),
                 url |-> urlunsplit(parts[1], parts[2], parts[3]),
                 fragment |-> FragmentField(fragment)],
              decoded |-> decodes,
              data |-> IF HasKey(data, "env") THEN [data EXCEPT !.env = env] ELSE data]

\* x or None
OrNone(x) == IF Truthy(x) THEN x ELSE None

\* to_json without the pruning of empty keys
to_json_unpruned(self) ==
    [method |-> self.method,
     url |-> self.url,
     query_string |-> OrNone(self.query_string),
     fragment |-> OrNone(self.fragment),
     cookies |-> OrNone(self.cookies),
     headers |-> OrNone(self.headers),
     data |-> self.data,
     env |-> OrNone(self.env),
     inferred_content_type |-> self.inferred_content_type]

\* Http.to_json(self)
to_json(self) ==
    prune_empty_keys(
        [method |-> self.method,
         url |-> self.url,
         query_string |-> OrNone(self.query_string),
         fragment |-> OrNone(self.fragment),
         cookies |-> OrNone(self.cookies),
         headers |-> OrNone(self.headers),
         data |-> self.data,
         env |-> OrNone(self.env),
         inferred_content_type |-> self.inferred_content_type])

\* ---------------------------------------------------------------- payloads

\* the longest enumerated method text
MaxMethodLen == 3
\* the most entries of an enumerated headers list
MaxHeaders == 2
\* the most calls of to_python on one payload object
MaxCalls == 2

RunOf(c, n) == [i \in 1..n |-> c]
TextsUpTo(alphabet, n) == UNION {[1..k -> alphabet] : k \in 0..n}

Payload(method, url, query_string, fragment, cookies, headers, body, inferred, env, valid) ==
    [is_valid |-> valid, method |-> method, url |-> url, query_string |-> query_string,
     fragment |-> fragment, cookies |-> cookies, headers |-> headers, data |-> body,
     inferred_content_type |-> inferred, env |-> env]

MethodTexts ==
    TextsUpTo({"a", "B", "-", "1", LF}, MaxMethodLen)
        \cup {<<"G", "E", "T">>, <<"P", "O", "S", "T">>, <<"p", "o", "s", "t">>,
              <<"P", "R", "O", "P", "F", "I", "N", "D">>, <<"g">>, <<"g", "e", "t", " ", "1">>,
              <<"G", "E", "T", LF>>, <<"A", "_", "B">>,
              RunOf("A", 32), RunOf("A", 33), RunOf("A", 32) \o <<LF>>}
MethodPayloads ==
    {Payload(m, Absent, Absent, Absent, Absent, Absent, Absent, Absent, Absent, valid) :
        m \in {Absent} \cup {S(x) : x \in MethodTexts}, valid \in BOOLEAN}

UrlTexts ==
    {a \o b \o c \o d \o e :
        a \in {<<>>, <<"h", "t", "t", "p", ":", "/", "/", "h">>,
               <<"H", "T", "T", "P", ":", "/", "/", "h">>},
        b \in {<<>>, <<"/", "p">>},
        c \in {<<>>, <<"?">>, <<"?", "a", "=", "1">>, <<"?", "a", "=", "1", "&", "b">>,
               <<"?", "?", "a">>, <<"?", "a", "+", "b", "=", "c">>},
        d \in {<<>>, <<"#">>, <<"#", "f">>, <<"#", "f", "?", "x">>, <<"#", "f", "r", "a", "g">>},
        e \in {<<>>, <<ELLIPSIS>>}}
QueryStringValues ==
    {Absent, S(<<>>), S(<<"x", "=", "2">>), S(<<"?", "x", "=", "2", ELLIPSIS>>), S(<<"?">>),
     D(<<>>), D(<<<<S(<<"a">>), I(1)>>, <<S(<<"n">>), None>>>>),
     L(<<>>), L(<<L(<<S(<<"k">>), S(<<"v">>)>>), None, L(<<S(<<"k">>)>>), T(<<S(<<"j">>), I(2)>>)>>),
     L(<<L(<<S(<<"k">>), S(RunOf("v", 4000))>>), L(<<S(<<"l">>), S(RunOf("w", 200))>>)>>),
     I(7)}
FragmentValues == {Absent, S(<<>>), S(<<"g">>), S(RunOf("g", 1030))}
UrlPayloads ==
    {Payload(Absent, u, Absent, Absent, Absent, Absent, Absent, Absent, Absent, TRUE) :
        u \in {Absent} \cup {S(x) : x \in UrlTexts}}
    \cup
    {Payload(Absent, u, q, f, Absent, Absent, Absent, Absent, Absent, TRUE) :
        u \in {Absent, S(<<"h", "t", "t", "p", ":", "/", "/", "h", "/", "p">>),
               S(<<"h", "t", "t", "p", ":", "/", "/", "h", "/", "p", "?", "a", "=", "1", "#",
                   "f", "r", "a", "g">>)},
        q \in QueryStringValues, f \in FragmentValues}

HeaderEntries ==
    {None,
     L(<<S(<<"c", "o", "o", "k", "i", "e">>), S(<<"a", "=", "1">>)>>),
     L(<<S(<<"C", "o", "o", "k", "i", "e">>), L(<<S(<<"b", "=", "2">>), S(<<"c">>)>>)>>),
     L(<<S(<<"c", "o", "n", "t", "e", "n", "t", "-", "t", "y", "p", "e">>),
         S(<<"t", "e", "x", "t", "/", "h", "t", "m", "l", ";", " ", "q">>)>>),
     L(<<S(<<"x", "-", "a">>), L(<<S(<<"1">>), S(<<"2">>)>>)>>),
     L(<<S(<<"X", "-", "B">>), I(5)>>)}
\* a list of more headers than trim_pairs keeps, a Cookie header among them
ManyHeaders ==
    L([i \in 1..(MaxDictionaryItems + 2) |->
        IF i = 2 THEN L(<<S(<<"C", "O", "O", "K", "I", "E">>), S(<<"a", "=", "1">>)>>)
        ELSE L(<<S(<<"x", "-", DigitChars[i + 1]>>), S(RunOf("v", i * 4))>>)])
HeaderLists == {L(x) : x \in TextsUpTo(HeaderEntries, MaxHeaders)} \cup {ManyHeaders}
\* the mapping with the items of a list of pairs
AsDict(list) == D([i \in DOMAIN list[2] |-> <<list[2][i][2][1], list[2][i][2][2]>>])
HeaderDicts ==
    {AsDict(h) : h \in {x \in HeaderLists :
        /\ \A i \in DOMAIN x[2] : x[2][i] # None
        /\ \A i, j \in DOMAIN x[2] : i # j => x[2][i][2][1] # x[2][j][2][1]}}
CookieValues ==
    {Absent, S(<<>>), S(<<"c", "=", "3">>), S(<<" ", "k", " ", "=", "v", "+", "w">>),
     D(<<<<S(<<"d", " ">>), S(<<"4", SURROGATE>>)>>>>),
     L(<<L(<<S(<<"e">>), S(<<"5">>)>>), L(<<S(<<"f">>), S(RunOf("6", 20))>>)>>)}
HeaderPayloads ==
    {Payload(Absent, Absent, Absent, Absent, c, h, Absent, Absent, Absent, TRUE) :
        c \in CookieValues, h \in {Absent} \cup HeaderLists \cup HeaderDicts}

BodyValues ==
    {Absent, S(<<>>), S(<<"r", "a", "w">>), S(<<"{", "}">>), S(<<"7">>),
     S(<<"\"", "{", "}", "\"">>), S(<<"\"", "a", "=", "1", "\"">>), S(<<"a", "=", "1">>),
     S(<<"r", SURROGATE>>), S(RunOf("r", MaxHttpBodySize + 5)),
     D(<<>>), D(<<<<S(<<"k">>), S(RunOf("v", MaxHttpBodySize + 5))>>>>)}
InferredValues == {Absent, S(<<>>), S(<<"t", "e", "x", "t", "/", "p", "l", "a", "i", "n">>)}
BodyHeaders ==
    {Absent,
     L(<<L(<<S(<<"c", "o", "n", "t", "e", "n", "t", "-", "t", "y", "p", "e">>),
             S(<<"t", "e", "x", "t", "/", "h", "t", "m", "l", ";", " ", "q">>)>>)>>),
     L(<<L(<<S(<<"C", "o", "n", "t", "e", "n", "t", "-", "T", "y", "p", "e">>), S(JSON_TYPE)>>)>>)}
BodyPayloads ==
    {Payload(Absent, Absent, Absent, Absent, Absent, h, b, i, Absent, TRUE) :
        h \in BodyHeaders, b \in BodyValues, i \in InferredValues}

GoodAddress == S(<<"1", "9", "2", ".", "1", "6", "8", ".", "0", ".", "1">>)
BadAddress == S(<<"n", "o", "t", "-", "a", "n", "-", "i", "p">>)
SERVER == S(<<"S", "E", "R", "V", "E", "R">>)
\* an env of more entries than trim_dict keeps, REMOTE_ADDR at position at
ManyEnv(address, at) ==
    D([i \in 1..(MaxDictionaryItems + 1) |->
        IF i = at THEN <<REMOTE_ADDR, address>> ELSE <<S(<<"K", DigitChars[i + 1]>>), I(i)>>])
EnvValues ==
    {Absent, D(<<>>), D(<<<<SERVER, S(RunOf("s", MaxVariableSize + 3))>>>>)}
    \cup UNION {{D(<<<<REMOTE_ADDR, a>>>>), D(<<<<SERVER, S(<<"s">>)>>, <<REMOTE_ADDR, a>>>>),
                 D(<<<<REMOTE_ADDR, a>>, <<SERVER, I(1)>>>>), ManyEnv(a, 1),
                 ManyEnv(a, MaxDictionaryItems + 1)} :
                    a \in {GoodAddress, BadAddress, S(<<>>), None}}
EnvPayloads ==
    {Payload(m, Absent, Absent, Absent, Absent, h, Absent, Absent, e, valid) :
        m \in {Absent, S(<<"g">>), S(<<"g", "e", "t">>)}, h \in {Absent, L(<<None>>)},
        e \in EnvValues, valid \in BOOLEAN}

Payloads == MethodPayloads \cup UrlPayloads \cup HeaderPayloads \cup BodyPayloads \cup EnvPayloads

\* -------------------------------------------------------------- the machine

VARIABLES
    submitted,  \* the payload as the client submitted it
    data,       \* the payload object that to_python is called on
    results,    \* the outcome of each call of to_python on data, in order
    stage,      \* "raw", "stored" once to_json has run, "reprocessed" after the second pass
    stored,     \* to_json of the record
    second      \* the outcome of to_python on the stored form

vars == <<submitted, data, results, stage, stored, second>>

Outcome(o) == [kind |-> o.kind, error |-> o.error, rec |-> o.rec, decoded |-> o.decoded]
NoOutcome == [kind |-> "none", error |-> "", rec |-> NoRecord, decoded |-> FALSE]

\* the stored form as a payload: it is what an accepted record serialises to
StoredPayload(json) == [k \in Fields \cup {"is_valid"} |-> IF k = "is_valid" THEN TRUE ELSE json[k]]

Init ==
    /\ submitted \in Payloads
    /\ data = submitted
    /\ results = <<>>
    /\ stage = "raw"
    /\ stored = NoRecord
    /\ second = NoOutcome

\* Http.to_python(data) on the payload object
ToPython ==
    /\ stage = "raw"
    /\ Len(results) < MaxCalls
    /\ results' = Append(results, Outcome(to_python(data)))
    /\ data' = to_python(data).data
    /\ UNCHANGED <<submitted, stage, stored, second>>

\* record.to_json()
ToJson ==
    /\ stage = "raw"
    /\ results # <<>>
    /\ results[Len(results)].kind = "record"
    /\ stored' = to_json(results[Len(results)].rec)
    /\ stage' = "stored"
    /\ UNCHANGED <<submitted, data, results, second>>

\* Http.to_python(stored): the second pass, over the stored form
Reprocess ==
    /\ stage = "stored"
    /\ second' = Outcome(to_python(StoredPayload(stored)))
    /\ stage' = "reprocessed"
    /\ UNCHANGED <<submitted, data, results, stored>>

Next == ToPython \/ ToJson \/ Reprocess

Spec == Init /\ [][Next]_vars

\* ------------------------------------------------------------------ claims

\* every outcome so far: the calls on the payload object, then the second pass
Outcomes == results \o (IF stage = "reprocessed" THEN <<second>> ELSE <<>>)
Returned(o) == o.kind = "record"
RaisedValidation(o) == o.kind = "InterfaceValidationError"

\* the method policy as the specification words it: GET, POST, or 3 to 32
\* characters drawn from A-Z, '-' and '_'
MethodPolicy(m) ==
    \/ m \in {<<"G", "E", "T">>, <<"P", "O", "S", "T">>}
    \/ (Len(m) >= 3 /\ Len(m) <= 32 /\ \A i \in DOMAIN m : m[i] \in MethodChars)

\* C1: to_python has exactly two outcomes: it raises the validation error (only
\* on a schema failure or a present method that fails the method policy) or it
\* returns a record; no shape of headers makes it fail with another error.
C1_ValidationErrorOrRecord ==
    \A i \in DOMAIN results :
        \/ Returned(results[i])
        \/ /\ RaisedValidation(results[i])
           /\ \/ ~submitted.is_valid
              \/ (Truthy(Get(submitted, "method"))
                    /\ ~MethodPolicy(upper(Get(submitted, "method")[2])))

\* C2: with a passing schema and a non-empty method, the validation error is
\* raised if and only if the upper-cased method fails the method policy, and an
\* accepted record stores the upper-cased method; an absent or empty method is
\* never rejected and gives method null; a schema failure raises first.
C2_MethodValidation ==
    results # <<>> =>
        LET o == results[1]
            m == Get(submitted, "method")
        IN  /\ ~submitted.is_valid => RaisedValidation(o)
            /\ (submitted.is_valid /\ Truthy(m)) =>
                    /\ RaisedValidation(o) <=> ~MethodPolicy(upper(m[2]))
                    /\ Returned(o) => o.rec.method = S(upper(m[2]))
            /\ (submitted.is_valid /\ ~Truthy(m)) =>
                    /\ ~RaisedValidation(o)
                    /\ Returned(o) => o.rec.method = None

\* C3: feeding to_json(to_python(x)) back through to_python gives a record equal
\* to to_python(x), and the second pass does not call the heuristic decoder.
C3_ReprocessIdempotent ==
    stage = "reprocessed" =>
        /\ Returned(second)
        /\ second.rec = results[Len(results)].rec
        /\ ~second.decoded

\* the (name, value) items of the submitted headers, null entries left out
SubmittedHeaderItems ==
    LET h == Get(submitted, "headers")
        NotNone(e) == e # None
        entries == SelectSeq(h[2], NotNone)
    IN  IF IsDict(h) THEN h[2]
        ELSE IF IsList(h) THEN [i \in DOMAIN entries |-> <<entries[i][2][1], entries[i][2][2]>>]
        ELSE <<>>
NamedCookie(name) == lower(name) = <<"c", "o", "o", "k", "i", "e">>
\* the title-cased names of the submitted headers other than Cookie, in order
OtherHeaderNames ==
    LET Other(item) == ~NamedCookie(item[1][2])
        others == SelectSeq(SubmittedHeaderItems, Other)
    IN  [i \in DOMAIN others |-> title(others[i][1][2])]
RecordHeaderNames(rec) == [i \in DOMAIN rec.headers[2] |-> rec.headers[2][i][2][1][2]]
\* what the record's cookies are built from
CookieSource ==
    LET explicit == Get(submitted, "cookies")
        Cookie(item) == NamedCookie(item[1][2])
        found == SelectSeq(SubmittedHeaderItems, Cookie)
    IN  IF Truthy(explicit) \/ found = <<>> THEN explicit
        ELSE JoinedHeaderValue(found[Len(found)][2])
CookiesFromSource(rec) == rec.cookies = trim_pairs(format_cookies(CookieSource))
NoCookieHeader(rec) ==
    \A i \in DOMAIN rec.headers[2] : ~NamedCookie(rec.headers[2][i][2][1][2])

\* C4 as stated: the record's headers hold no Cookie entry and hold all the other
\* entries, in input order, under title-cased names; the cookies come from the
\* explicit cookies when non-empty and otherwise from the Cookie header.
C4_AllOtherHeadersKept ==
    \A i \in DOMAIN results :
        Returned(results[i]) =>
            /\ NoCookieHeader(results[i].rec)
            /\ RecordHeaderNames(results[i].rec) = OtherHeaderNames
            /\ CookiesFromSource(results[i].rec)

\* C4 as amended: the same, with the other entries kept up to the final pair
\* trim (the first MaxDictionaryItems of them).
C4_OtherHeadersKeptUpToTrim ==
    \A i \in DOMAIN results :
        Returned(results[i]) =>
            /\ NoCookieHeader(results[i].rec)
            /\ RecordHeaderNames(results[i].rec)
                 = SubSeq(OtherHeaderNames, 1, Min(Len(OtherHeaderNames), MaxDictionaryItems))
            /\ CookiesFromSource(results[i].rec)

\* C4 witness: a Cookie header was taken out of the headers and, with no
\* explicit cookies, became the record's cookies, beside a kept header.
C4_Witness ==
    /\ results # <<>>
    /\ Returned(results[1])
    /\ \E i \in DOMAIN SubmittedHeaderItems : NamedCookie(SubmittedHeaderItems[i][1][2])
    /\ ~Truthy(Get(submitted, "cookies"))
    /\ results[1].rec.cookies[2] # <<>>
    /\ results[1].rec.headers[2] # <<>>

\* C5: with a url, the record's url is the rejoin of the scheme, host and path of
\* the url (its trailing ellipsis repaired) and holds neither query nor fragment;
\* with no explicit query_string or fragment the record's pairs and fragment are
\* those split off the url; with no url the url field is the empty string.
C5_UrlDecomposition ==
    \A i \in DOMAIN results :
        Returned(results[i]) =>
            LET rec == results[i].rec
                u == Get(submitted, "url")
                parts == urlsplit(RepairEllipsis(u[2]))
            IN  /\ Truthy(u) =>
                    /\ rec.url = urlunsplit(parts[1], parts[2], parts[3])
                    /\ \A j \in DOMAIN rec.url[2] : rec.url[2][j] \notin {"?", "#"}
                    /\ ~Truthy(Get(submitted, "query_string")) =>
                            rec.query_string = QueryStringField(parts[4])
                    /\ ~Truthy(Get(submitted, "fragment")) => rec.fragment = FragmentField(parts[5])
                /\ ~Truthy(u) => rec.url = S(<<>>)

\* C6 as stated: an explicit query_string field, whenever the payload carries
\* one, decides the record's query pairs, and the url's query is used only when
\* the payload carries none; likewise for fragment.
C6_ExplicitFieldWins ==
    \A i \in DOMAIN results :
        Returned(results[i]) =>
            LET rec == results[i].rec
                parts == SplitUrl(submitted)
            IN  /\ rec.query_string =
                     QueryStringField(IF HasKey(submitted, "query_string")
                                      THEN submitted.query_string ELSE parts[4])
                /\ rec.fragment =
                     FragmentField(IF HasKey(submitted, "fragment")
                                   THEN submitted.fragment ELSE parts[5])

\* C6 as amended: a non-empty explicit query_string decides the record's query
\* pairs; an absent or empty one leaves them to the url's query; with neither
\* the pairs are the empty sequence.  Likewise for fragment.
C6_NonEmptyExplicitFieldWins ==
    \A i \in DOMAIN results :
        Returned(results[i]) =>
            LET rec == results[i].rec
                parts == SplitUrl(submitted)
                q == Get(submitted, "query_string")
                f == Get(submitted, "fragment")
            IN  /\ Truthy(q) => rec.query_string = trim(CoerceQueryString(q), 4096)
                /\ (~Truthy(q) /\ Truthy(parts[4])) =>
                        rec.query_string = trim(CoerceQueryString(parts[4]), 4096)
                /\ (~Truthy(q) /\ ~Truthy(parts[4])) => rec.query_string = L(<<>>)
                /\ Truthy(f) => rec.fragment = trim(f, 1024)
                /\ ~Truthy(f) => rec.fragment = trim(parts[5], 1024)

\* C6 witness: a payload with both a non-empty explicit query_string and a url
\* query, whose record holds the pairs of the explicit field.
C6_Witness ==
    /\ results # <<>>
    /\ Returned(results[1])
    /\ Truthy(Get(submitted, "query_string"))
    /\ Truthy(SplitUrl(submitted)[4])
    /\ results[1].rec.query_string # QueryStringField(SplitUrl(submitted)[4])
    /\ results[1].rec.query_string[2] # <<>>

\* the bounds of a record's fields
Bounded(rec) ==
    /\ Size(rec.query_string) <= 4096
    /\ Size(rec.fragment) <= 1024
    /\ Size(rec.data) <= MaxHttpBodySize
    /\ Len(rec.headers[2]) <= MaxDictionaryItems
    /\ Len(rec.cookies[2]) <= MaxDictionaryItems
    /\ Len(rec.env[2]) <= MaxDictionaryItems

\* C7: for every input, to_python either raises the validation error or returns
\* a record whose query pairs, fragment, body, headers, cookies and env are
\* within their bounds.
C7_BoundedOutput ==
    \A i \in DOMAIN Outcomes :
        \/ RaisedValidation(Outcomes[i])
        \/ (Returned(Outcomes[i]) /\ Bounded(Outcomes[i].rec))

\* every record that to_python returns is within the bounds
RecordsBounded == \A i \in DOMAIN Outcomes : Returned(Outcomes[i]) => Bounded(Outcomes[i].rec)

HasRemoteAddr(env) == \E i \in DOMAIN env[2] : env[2][i][1] = REMOTE_ADDR
\* the submitted env without a REMOTE_ADDR that the IP validator refuses
SubmittedEnvScrubbed ==
    LET env == GetDefault(submitted, "env", D(<<>>))
        Accepted(e) == e[1] = REMOTE_ADDR => ~validate_ip_raises(e[2], FALSE)
    IN  D(SelectSeq(env[2], Accepted))

C10_InputUnchanged ==
    /\ data = submitted
    /\ \A i, j \in DOMAIN results : results[i] = results[j]
====
